---- MODULE Spec2Model ----
(***************************************************************************)
(* A model of the mix splitter: splitter.py (track reconciliation, the     *)
(* songs.txt ledger, the thumbnail crop, the per-track loop of split),     *)
(* download.py (the fixed-named files of the temp folder) and main.py      *)
(* (one worker thread per received message).                               *)
(*                                                                         *)
(* A title is a sequence of one-character strings, so that re.sub and      *)
(* str.strip act on it character by character.                             *)
(***************************************************************************)
EXTENDS Integers, Sequences, FiniteSets, TLC

VARIABLES
    chapters,     \* merge_duplicate_tracks: the argument `tracks`
    reconciled,   \* merge_duplicate_tracks: pc "call", or pc "return" with
                  \*   merged = list(merged.values()) before the re.sub loop
                  \*   and tracks = the returned list
    img,          \* crop_thumbnail: (width, height) of the opened image
    crop,         \* crop_thumbnail: the crop filter built and how the call ended
    out,          \* the output folders: their .mp3 files and their songs.txt
    hist,         \* check_tracks: the last call (arguments, folder before, result)
    thumbnail_folder,  \* main.py: THUMBNAIL_FOLDER, the temp_folder of split
    tmp,          \* the temp folders: what audio.mp3, cover.jpeg, new_cover.jpeg hold
    job,          \* one worker thread per received message: its locals and position
    results,      \* get_youtube_track: Search(track.title).videos
    resolved      \* get_youtube_track: pc "call", or how the call ended

reconcileVars == <<chapters, reconciled>>
cropVars == <<img, crop>>
ledgerVars == <<out, hist>>
serviceVars == <<thumbnail_folder, tmp, job>>
resolverVars == <<results, resolved>>
vars == <<chapters, reconciled, img, crop, out, hist, thumbnail_folder, tmp, job,
          results, resolved>>

----------------------------------------------------------------------------
(* Bounds of the model.                                                    *)

MaxTitleLen == 3
MaxChapters == 3
MaxDim == 12
MaxLedgerTracks == 2
MaxLedgerLines == 3
MaxResults == 6

----------------------------------------------------------------------------
(* Characters and titles.                                                  *)

DIGITS == {"1"}
WHITESPACE == {" "}
PERIOD == "."
Chars == {"1", ".", " ", "a"}

SeqsUpTo(S, n) == UNION {[1..k -> S] : k \in 0..n}

AllTitles == SeqsUpTo(Chars, MaxTitleLen)

\* track.py: Track(title, start, duration)
Track(title, start, duration) ==
    [title |-> title, start |-> start, duration |-> duration]

Min(a, b) == IF a <= b THEN a ELSE b

\* The first index >= i of s whose character is not in S (Len(s)+1 if none).
RECURSIVE SkipRun(_, _, _)
SkipRun(s, i, S) ==
    IF i <= Len(s) /\ s[i] \in S THEN SkipRun(s, i + 1, S) ELSE i

\* The last index <= i of s whose character is not in S (0 if none).
RECURSIVE SkipRunBack(_, _, _)
SkipRunBack(s, i, S) ==
    IF i >= 1 /\ s[i] \in S THEN SkipRunBack(s, i - 1, S) ELSE i

\* str.strip(): leading and trailing whitespace removed.
strip(s) ==
    LET a == SkipRun(s, 1, WHITESPACE)
        b == SkipRunBack(s, Len(s), WHITESPACE)
    IN IF a > b THEN <<>> ELSE SubSeq(s, a, b)

AllPeriods(s) == \A k \in DOMAIN s : s[k] = PERIOD

\* re.sub(r'^\d+\.?\s*', '', title): the greedy match at the start of the
\* title is removed; without a leading digit nothing matches.
re_sub_ordinal(title) ==
    LET d == SkipRun(title, 1, DIGITS)
        p == IF d <= Len(title) /\ title[d] = PERIOD THEN d + 1 ELSE d
        w == SkipRun(title, p, WHITESPACE)
    IN IF d = 1 THEN title ELSE SubSeq(title, w, Len(title))

----------------------------------------------------------------------------
(* merge_duplicate_tracks.  The dict `merged` is insertion-ordered and     *)
(* keyed by the title; until the re.sub loop every value's title is its    *)
(* key, so the dict is the sequence of its values.                         *)

KeyIndex(d, title) ==
    IF \E k \in DOMAIN d : d[k].title = title
    THEN CHOOSE k \in DOMAIN d : d[k].title = title
    ELSE 0

\* merge_insert, had it kept the duration of the first track of a title.
merge_insert_firstduration(d, track) ==
    LET k == KeyIndex(d, track.title) IN
    IF k # 0
    THEN [d EXCEPT ![k] = Track(track.title, Min(d[k].start, track.start), d[k].duration)]
    ELSE Append(d, track)

\* One iteration of `for track in tracks`.
merge_insert(d, track) ==
    LET k == KeyIndex(d, track.title) IN
    IF k # 0
    THEN [d EXCEPT ![k] = Track(track.title, Min(d[k].start, track.start), track.duration)]
    ELSE Append(d, track)

RECURSIVE merge_loop(_, _)
merge_loop(tracks, d) ==
    IF tracks = <<>> THEN d
    ELSE merge_loop(Tail(tracks), merge_insert(d, Head(tracks)))

\* tracks = list(merged.values())
merge_values(tracks) == merge_loop(tracks, <<>>)

\* track.title = re.sub(pattern, '', track.title)
normalize_title(title) == re_sub_ordinal(title)

normalize_titles(tracks) ==
    [k \in DOMAIN tracks |-> [tracks[k] EXCEPT !.title = normalize_title(@)]]

\* Which object each value of `merged` is: `merged[track.title] = track`
\* stores the Track object of the argument itself (its index k in the list),
\* `merged[track.title] = Track(...)` stores a new object (0).
RECURSIVE merge_objects(_, _, _)
merge_objects(tracks, k, d) ==
    IF k > Len(tracks) THEN d
    ELSE LET i == KeyIndex(d, tracks[k].title) IN
         merge_objects(tracks, k + 1,
             IF i # 0 THEN [d EXCEPT ![i].object = 0]
             ELSE Append(d, [title |-> tracks[k].title, object |-> k]))

\* The Track objects of the argument after the call: `track.title = re.sub(..)`
\* assigns to the objects of list(merged.values()), and those that came from
\* the argument are the argument's own objects.
argument_after(tracks) ==
    LET d == merge_objects(tracks, 1, <<>>) IN
    [k \in DOMAIN tracks |->
        IF \E i \in DOMAIN d : d[i].object = k
        THEN [tracks[k] EXCEPT !.title = normalize_title(@)]
        ELSE tracks[k]]

\* merge_duplicate_tracks, had it normalized the titles before grouping.
normalize_then_merge(tracks) == merge_values(normalize_titles(tracks))

\* merge_duplicate_tracks(tracks)
merge_duplicate_tracks(tracks) == normalize_titles(merge_values(tracks))

----------------------------------------------------------------------------
(* crop_thumbnail.  width and height are integers, so every quotient the   *)
(* code forms in floating point is a rational with denominator 16, 32, 9   *)
(* or 18; int() truncates toward zero.                                     *)

\* int(a / b) for b > 0
TruncDiv(a, b) == IF a >= 0 THEN a \div b ELSE -((-a) \div b)

\* a / b rounded up instead of truncated, for a >= 0
CeilDiv(a, b) == IF a >= 0 THEN (a + b - 1) \div b ELSE -((-a) \div b)

\* width / height > 16 / 9
ratio_wide_169(w, h) == 9 * w > 16 * h

\* ratio = width / height; `if ratio > 1`
ratio_wide(w, h) == w > h

\* crop_params, had it rounded the sizes up.
crop_params_ceil(w, h) ==
    IF ratio_wide(w, h)
    THEN [branch |-> "wide", w |-> w, h |-> CeilDiv(9 * w, 16),
          x |-> 0, y |-> TruncDiv(16 * h - 9 * w, 32)]
    ELSE [branch |-> "tall", w |-> CeilDiv(16 * h, 9), h |-> h,
          x |-> TruncDiv(9 * w - 16 * h, 18), y |-> 0]

\* crop_params = f"crop={int(..)}:{int(..)}:{int(..)}:{int(..)}"  (w:h:x:y)
crop_params(w, h) ==
    IF ratio_wide(w, h)
    THEN [branch |-> "wide", w |-> w, h |-> TruncDiv(9 * w, 16),
          x |-> 0, y |-> TruncDiv(16 * h - 9 * w, 32)]
    ELSE [branch |-> "tall", w |-> TruncDiv(16 * h, 9), h |-> h,
          x |-> TruncDiv(9 * w - 16 * h, 18), y |-> 0]

\* subprocess.run(...) of the crop: the wide branch passes no check=True, so
\* a non-zero exit is not raised there; the tall branch raises it.
crop_outcome(branch, exit) ==
    IF branch = "tall" /\ exit # 0 THEN "raised" ELSE "returned"

ExitStatus == {0, 1}

----------------------------------------------------------------------------
(* The output folder and check_tracks.  A file name is the title followed  *)
(* by the extension; songs.txt is the sequence of its lines, each written  *)
(* as f"{title}\n".                                                        *)

MP3 == ".mp3"

Range(s) == { s[k] : k \in DOMAIN s }

\* Every order in which the elements of the set S can be iterated.
Orderings(S) == { s \in [1..Cardinality(S) -> S] : Range(s) = S }

\* f"{title}.mp3"
mp3_name(title) == Append(title, MP3)

\* file.endswith('.mp3')
endswith_mp3(name) == Len(name) >= 1 /\ name[Len(name)] = MP3

\* os.path.splitext(file)[0]: the last extension is cut off, unless the name
\* before it is empty or all periods (leading periods are no extension).
splitext_root(name) ==
    LET root == SubSeq(name, 1, Len(name) - 1) IN
    IF AllPeriods(root) THEN name ELSE root

NoSongsTxt == [exists |-> FALSE, lines |-> <<>>]
EmptyFolder == [mp3 |-> {}, songs_txt |-> NoSongsTxt]

\* os.listdir(output_folder) filtered by endswith('.mp3'), then splitext
existing_songs(d) ==
    { splitext_root(f.name) : f \in { g \in d.mp3 : endswith_mp3(g.name) } }

\* `if not os.path.exists(songs_file)`: songs.txt is written from the files
\* of the folder, in the iteration order `order` of the set, if there are any.
seed_songs_txt(d, order) ==
    IF ~d.songs_txt.exists /\ existing_songs(d) # {}
    THEN [d EXCEPT !.songs_txt = [exists |-> TRUE, lines |-> order]]
    ELSE d

\* processed_songs = set(line.strip() for line in f)
read_processed_songs(d) ==
    IF d.songs_txt.exists
    THEN { strip(d.songs_txt.lines[k]) : k \in DOMAIN d.songs_txt.lines }
    ELSE {}

\* filter_new_tracks, had it collected the tracks back to front.
RECURSIVE filter_new_tracks_reversed(_, _)
filter_new_tracks_reversed(tracks, processed_songs) ==
    IF tracks = <<>> THEN <<>>
    ELSE LET rest == filter_new_tracks_reversed(Tail(tracks), processed_songs) IN
         IF Head(tracks).title \notin processed_songs
         THEN Append(rest, Head(tracks))
         ELSE rest

\* new_tracks = [track for track in tracks if track.title not in processed_songs]
RECURSIVE filter_new_tracks(_, _)
filter_new_tracks(tracks, processed_songs) ==
    IF tracks = <<>> THEN <<>>
    ELSE LET rest == filter_new_tracks(Tail(tracks), processed_songs) IN
         IF Head(tracks).title \notin processed_songs
         THEN <<Head(tracks)>> \o rest
         ELSE rest

\* append_new_tracks, had check_tracks not written the titles.
append_new_tracks_skipped(d, new_tracks) == d

\* `if new_tracks:` every title is appended to songs.txt
append_new_tracks(d, new_tracks) ==
    IF new_tracks = <<>> THEN d
    ELSE [d EXCEPT !.songs_txt =
              [exists |-> TRUE,
               lines |-> @.lines \o [k \in DOMAIN new_tracks |-> new_tracks[k].title]]]

\* The three results of check_tracks(tracks, output_folder) on folder d.
check_tracks_seeded(d, order) == seed_songs_txt(d, order)
check_tracks_new(d, order, tracks) ==
    filter_new_tracks(tracks, read_processed_songs(check_tracks_seeded(d, order)))
check_tracks_folder(d, order, tracks) ==
    append_new_tracks(check_tracks_seeded(d, order), check_tracks_new(d, order, tracks))

----------------------------------------------------------------------------
(* Specification of the reconciler: merge_duplicate_tracks applied to a    *)
(* chapter list.                                                           *)

PoolTitles ==
    { <<"a">>, <<"b">>, <<"1", ".", " ", "a">>, <<"1", "a">> }

PoolStarts == {0, 1}
PoolDurations == {1, 2}

PoolTracks ==
    { Track(t, s, d) : t \in PoolTitles, s \in PoolStarts, d \in PoolDurations }

\* One chapter with any title, or up to MaxChapters chapters from the pool.
ChapterLists ==
    { <<Track(t, 0, 1)>> : t \in AllTitles } \cup SeqsUpTo(PoolTracks, MaxChapters)

Pending == [pc |-> "call"]

----------------------------------------------------------------------------
(* The service: main.py starts one thread per message; every thread runs   *)
(* process_video, that is download and then split.                         *)

TEMP_DOWNLOAD == "temp_download"
THUMBNAILS == "thumbnails"
TempFolders == {TEMP_DOWNLOAD, THUMBNAILS}

ABSENT == "absent"
EmptyTemp == [audio |-> ABSENT, cover |-> ABSENT, new_cover |-> ABSENT]

\* The threads in the order process_message starts them.
Threads == {1, 2}

\* A path os.path.join(folder, name); NoSong is the None get_youtube_track returns.
Path(folder, name) == [folder |-> folder, name |-> name]
NoSong == [folder |-> "", name |-> <<>>]

NoJob ==
    [pc |-> "listen", video_url |-> "", folder |-> "", tracks |-> <<>>,
     new_tracks |-> <<>>, i |-> 0, candidate |-> <<>>, songs |-> <<>>,
     calls |-> <<>>, rerun_of |-> {}, retry_of |-> {}]

\* What the downloader finds behind a URL.
URLS == {"v1", "v2", "bad"}
CANDIDATE == "candidate"

video_chapters(url) ==
    IF url = "v1"
    THEN << Track(<<"1", ".", " ", "a">>, 0, 1), Track(<<"b">>, 1, 2) >>
    ELSE << Track(<<" ", "a">>, 0, 1) >>

thumbnail_size(source) ==
    IF source = "v1" THEN <<16, 9>>
    ELSE IF source = "v2" THEN <<3, 4>>
    ELSE <<1, 1>>

\* The titles a search result accepted for a track can carry.
candidate_titles(track) == { track.title, <<"c">> }

\* The messages pubsub.listen() can hand to process_message.
Messages ==
    [type : {"subscribe", "message"}, video_url : URLS \cup {""},
     location : {"", "location"}]

\* similarity * 100; `if similarity < 0.6: return`
Scores == {59, 60}
THRESHOLD == 60

\* resolver_declines, had the threshold itself been declined.
resolver_declines_inclusive(similarity) == similarity <= THRESHOLD

\* `if similarity < 0.6: return`
resolver_declines(similarity) == similarity < THRESHOLD

\* needs_split_track, had split called split_track for every track.
needs_split_track_always(song) == TRUE

\* split: `if not song:` after get_youtube_track
needs_split_track(song) == song = NoSong

\* An ffmpeg run cannot exit 0 when one of its inputs does not exist.
ffmpeg_exits(audio, cover) ==
    IF audio = ABSENT \/ cover = ABSENT THEN ExitStatus \ {0} ELSE ExitStatus

\* ffmpeg -y ... output_file: the file is (over)written on exit status 0.
ffmpeg_write(d, name, audio, cover, exit) ==
    IF exit = 0
    THEN [d EXCEPT !.mp3 = { f \in @ : f.name # name }
                            \cup {[name |-> name, audio |-> audio, cover |-> cover]}]
    ELSE d

Call(op, track, result, exit, path, audio, cover) ==
    [op |-> op, track |-> track, result |-> result, exit |-> exit,
     path |-> path, audio |-> audio, cover |-> cover]

OUTPUT == "output"
LOCATION == "location"
OutputFolders == {OUTPUT, LOCATION}

\* process_video: new_location
new_location(location) == IF location = "" THEN OUTPUT ELSE LOCATION

IdleCrop == img = <<1, 1>> /\ crop = Pending
IdleReconcile == chapters = <<>> /\ reconciled = Pending
IdleLedger == out = [f \in OutputFolders |-> EmptyFolder] /\ hist = <<>>
IdleService ==
    /\ thumbnail_folder = TEMP_DOWNLOAD
    /\ tmp = [f \in TempFolders |-> EmptyTemp]
    /\ job = [t \in Threads |-> NoJob]
IdleResolver == results = <<>> /\ resolved = Pending

InitReconcile ==
    /\ chapters \in ChapterLists
    /\ reconciled = Pending
    /\ IdleCrop
    /\ IdleLedger
    /\ IdleService
    /\ IdleResolver

\* The first call: chapters is the argument as it was handed in, argument
\* is what its Track objects hold when the call has returned.
MergeDuplicateTracks ==
    /\ reconciled.pc = "call"
    /\ reconciled' = [pc |-> "return", merged |-> merge_values(chapters),
                      tracks |-> merge_duplicate_tracks(chapters),
                      argument |-> argument_after(chapters),
                      calls |-> 1, again |-> <<>>]
    /\ UNCHANGED <<chapters, cropVars, ledgerVars, serviceVars, resolverVars>>

\* merge_duplicate_tracks called a second time on the same list object.
MergeDuplicateTracksAgain ==
    /\ reconciled.pc = "return"
    /\ reconciled.calls = 1
    /\ reconciled' = [reconciled EXCEPT
                          !.calls = 2,
                          !.again = merge_duplicate_tracks(reconciled.argument),
                          !.argument = argument_after(@)]
    /\ UNCHANGED <<chapters, cropVars, ledgerVars, serviceVars, resolverVars>>

NextReconcile == MergeDuplicateTracks \/ MergeDuplicateTracksAgain

SpecReconcile == InitReconcile /\ [][NextReconcile]_vars

----------------------------------------------------------------------------
(* Specification of the cropper: crop_thumbnail applied to an image.       *)

InitCrop ==
    /\ img \in (1..MaxDim) \X (1..MaxDim)
    /\ crop = Pending
    /\ IdleReconcile
    /\ IdleLedger
    /\ IdleService
    /\ IdleResolver

CropThumbnail ==
    /\ crop.pc = "call"
    /\ \E exit \in ExitStatus :
         LET p == crop_params(img[1], img[2]) IN
         crop' = [pc |-> "return", params |-> p, exit |-> exit,
                  outcome |-> crop_outcome(p.branch, exit)]
    /\ UNCHANGED <<img, reconcileVars, ledgerVars, serviceVars, resolverVars>>

NextCrop == CropThumbnail

SpecCrop == InitCrop /\ [][NextCrop]_vars

----------------------------------------------------------------------------
(* Specification of the ledger: check_tracks called again and again on one *)
(* output folder, which may hold .mp3 files before the first call and gets *)
(* the files split_track writes for the tracks check_tracks returned.      *)

LedgerTitles == { <<"a">>, <<"b">>, <<" ", "a">> }

OldFile(title) == [name |-> mp3_name(title), audio |-> "old", cover |-> "old"]

LedgerTrackLists ==
    SeqsUpTo({ Track(t, 0, 1) : t \in LedgerTitles }, MaxLedgerTracks)

InitLedger ==
    /\ \E titles \in SUBSET LedgerTitles :
           out = [f \in OutputFolders |->
                     IF f = OUTPUT
                     THEN [mp3 |-> { OldFile(t) : t \in titles }, songs_txt |-> NoSongsTxt]
                     ELSE EmptyFolder]
    /\ hist = <<>>
    /\ IdleReconcile
    /\ IdleCrop
    /\ IdleService
    /\ IdleResolver

\* check_tracks(tracks, output_folder)
CheckTracks ==
    \E tracks \in LedgerTrackLists, order \in Orderings(existing_songs(out[OUTPUT])) :
        LET d == out[OUTPUT]
            call == [tracks |-> tracks,
                     before |-> d,
                     repeated |-> /\ hist # <<>>
                                  /\ hist[1].tracks = tracks
                                  /\ hist[1].after.songs_txt = d.songs_txt,
                     listed |-> ~d.songs_txt.exists,
                     seeded |-> check_tracks_seeded(d, order),
                     processed_songs |-> read_processed_songs(check_tracks_seeded(d, order)),
                     new_tracks |-> check_tracks_new(d, order, tracks),
                     after |-> check_tracks_folder(d, order, tracks)]
            after == call.after
        IN /\ Len(after.songs_txt.lines) <= MaxLedgerLines
           /\ out' = [out EXCEPT ![OUTPUT] = after]
           /\ hist' = <<call>>
           /\ UNCHANGED <<reconcileVars, cropVars, serviceVars, resolverVars>>

\* split_track writes f"{track_title.strip()}.mp3" for a returned track.
WriteSong ==
    /\ hist # <<>>
    /\ \E k \in DOMAIN hist[Len(hist)].new_tracks :
           LET name == mp3_name(strip(hist[Len(hist)].new_tracks[k].title)) IN
           out' = [out EXCEPT ![OUTPUT].mp3 =
                       { f \in @ : f.name # name }
                       \cup {[name |-> name, audio |-> "master", cover |-> "master"]}]
    /\ UNCHANGED <<hist, reconcileVars, cropVars, serviceVars, resolverVars>>

NextLedger == CheckTracks \/ WriteSong

SpecLedger == InitLedger /\ [][NextLedger]_vars

----------------------------------------------------------------------------
(* Specification of the service.                                           *)

Init ==
    /\ thumbnail_folder \in TempFolders
    /\ tmp = [f \in TempFolders |-> EmptyTemp]
    /\ job = [t \in Threads |-> NoJob]
    /\ out = [f \in OutputFolders |-> EmptyFolder]
    /\ hist = <<>>
    /\ IdleReconcile
    /\ IdleCrop
    /\ IdleResolver

Fail(t) == job' = [job EXCEPT ![t].pc = "failed"]

\* The position after track i of the loop `for track in tracks`; after the
\* last track split returns songs and process_video publishes them.
loop_pc(j, i) == IF i > Len(j.new_tracks) THEN "done" ELSE "resolve"

\* `if not song: song = split_track(...)`, else songs.append(song)
after_resolver(j, song) ==
    IF needs_split_track(song)
    THEN [j EXCEPT !.pc = "extract"]
    ELSE [j EXCEPT !.songs = Append(@, song), !.i = @ + 1,
                   !.pc = loop_pc(j, j.i + 1)]

\* The subscriber loop hands the messages to process_message one by one.
Earlier(t) == { u \in Threads : u < t }

\* process_message: a thread is started for a message that names a video.
ProcessMessage(t) ==
    /\ job[t].pc = "listen"
    /\ \A u \in Earlier(t) : job[u].pc # "listen"
    /\ \E m \in Messages :
           job' = [job EXCEPT ![t] =
                       IF m.type # "message" \/ m.video_url = ""
                       THEN [@ EXCEPT !.pc = "ignored"]
                       ELSE [@ EXCEPT !.pc = "download",
                                      !.video_url = m.video_url,
                                      !.folder = new_location(m.location)]]
    /\ UNCHANGED <<thumbnail_folder, tmp, out, hist, reconcileVars, cropVars, resolverVars>>

\* download: pytubefix.YouTube(video_url), then download_audio
DownloadAudio(t) ==
    /\ job[t].pc = "download"
    /\ IF job[t].video_url = "bad"
       THEN Fail(t) /\ UNCHANGED tmp
       ELSE /\ tmp' = [tmp EXCEPT ![TEMP_DOWNLOAD].audio = job[t].video_url]
            /\ job' = [job EXCEPT ![t].pc = "download_thumbnail"]
    /\ UNCHANGED <<thumbnail_folder, out, hist, reconcileVars, cropVars, resolverVars>>

\* download: download_thumbnail, then the chapters as tracks
DownloadThumbnail(t) ==
    /\ job[t].pc = "download_thumbnail"
    /\ tmp' = [tmp EXCEPT ![TEMP_DOWNLOAD].cover = job[t].video_url]
    /\ job' = [job EXCEPT ![t].pc = "split",
                          ![t].tracks = video_chapters(job[t].video_url)]
    /\ UNCHANGED <<thumbnail_folder, out, hist, reconcileVars, cropVars, resolverVars>>

\* split: check_ffmpeg, merge_duplicate_tracks, and check_tracks up to the
\* list new_tracks
SplitBegin(t) ==
    /\ job[t].pc = "split"
    /\ \E ffmpeg \in BOOLEAN :
           IF ~ffmpeg
           THEN Fail(t) /\ UNCHANGED out
           ELSE \E order \in Orderings(existing_songs(out[job[t].folder])) :
                    LET d == out[job[t].folder]
                        tracks == merge_duplicate_tracks(job[t].tracks)
                    IN /\ out' = [out EXCEPT ![job[t].folder] = check_tracks_seeded(d, order)]
                       /\ job' = [job EXCEPT
                              ![t].pc = "append",
                              ![t].tracks = tracks,
                              ![t].new_tracks = check_tracks_new(d, order, tracks),
                              ![t].rerun_of =
                                  { u \in Threads \ {t} :
                                      /\ job[u].pc = "done"
                                      /\ job[u].video_url = job[t].video_url
                                      /\ job[u].folder = job[t].folder },
                              ![t].retry_of =
                                  { u \in Threads \ {t} :
                                      /\ job[u].pc = "failed"
                                      /\ job[u].video_url = job[t].video_url
                                      /\ job[u].folder = job[t].folder }]
    /\ UNCHANGED <<thumbnail_folder, tmp, hist, reconcileVars, cropVars, resolverVars>>

\* check_tracks: the titles of new_tracks are appended to songs.txt
CheckTracksAppend(t) ==
    /\ job[t].pc = "append"
    /\ out' = [out EXCEPT ![job[t].folder] = append_new_tracks(@, job[t].new_tracks)]
    /\ job' = [job EXCEPT ![t].pc = "crop"]
    /\ UNCHANGED <<thumbnail_folder, tmp, hist, reconcileVars, cropVars, resolverVars>>

\* crop_thumbnail(source, folder): what new_cover.jpeg of the folder holds
\* afterwards, for the exit status of the crop.
cropped(folder, source, exit) ==
    IF exit = 0 THEN [tmp EXCEPT ![folder].new_cover = source] ELSE tmp

\* split: thumbnail = crop_thumbnail(thumbnail, temp_folder)
CropMaster(t) ==
    /\ job[t].pc = "crop"
    /\ LET source == tmp[TEMP_DOWNLOAD].cover
           size == thumbnail_size(source)
           p == crop_params(size[1], size[2])
       IN /\ source # ABSENT
          /\ \E exit \in ExitStatus :
                 IF crop_outcome(p.branch, exit) = "raised"
                 THEN Fail(t) /\ UNCHANGED tmp
                 ELSE /\ tmp' = cropped(thumbnail_folder, source, exit)
                      /\ job' = [job EXCEPT ![t].i = 1,
                                            ![t].pc = loop_pc(job[t], 1)]
    /\ UNCHANGED <<thumbnail_folder, out, hist, reconcileVars, cropVars, resolverVars>>

\* get_youtube_track up to `if similarity < 0.6: return`
ResolveSearch(t) ==
    /\ job[t].pc = "resolve"
    /\ LET j == job[t]
           track == j.new_tracks[j.i]
       IN \/ Fail(t)
          \/ \E similarity \in Scores :
                 IF resolver_declines(similarity)
                 THEN job' = [job EXCEPT ![t] =
                          after_resolver(
                              [j EXCEPT !.calls = Append(@,
                                  Call("resolve", j.i, "declined", 0, NoSong, "", ""))],
                              NoSong)]
                 ELSE \E title \in candidate_titles(track) :
                          job' = [job EXCEPT ![t].pc = "resolve_download",
                                             ![t].candidate = title]
    /\ UNCHANGED <<thumbnail_folder, tmp, out, hist, reconcileVars, cropVars, resolverVars>>

\* get_youtube_track: download_audio, download_thumbnail and crop_thumbnail
\* of the search result, all in temp_folder
ResolveDownload(t) ==
    /\ job[t].pc = "resolve_download"
    /\ LET size == thumbnail_size(CANDIDATE)
           p == crop_params(size[1], size[2])
           fetched == [tmp EXCEPT ![thumbnail_folder].audio = CANDIDATE,
                                  ![thumbnail_folder].cover = CANDIDATE]
       IN \E exit \in ExitStatus :
              /\ tmp' = IF exit = 0
                        THEN [fetched EXCEPT ![thumbnail_folder].new_cover = CANDIDATE]
                        ELSE fetched
              /\ IF crop_outcome(p.branch, exit) = "raised"
                 THEN Fail(t)
                 ELSE job' = [job EXCEPT ![t].pc = "resolve_tag"]
    /\ UNCHANGED <<thumbnail_folder, out, hist, reconcileVars, cropVars, resolverVars>>

\* get_youtube_track: the ffmpeg run that tags the search result's audio
ResolveTag(t) ==
    /\ job[t].pc = "resolve_tag"
    /\ LET j == job[t]
           audio == tmp[thumbnail_folder].audio
           cover == tmp[thumbnail_folder].new_cover
           name == mp3_name(strip(j.candidate))
           song == Path(j.folder, name)
       IN \E exit \in ffmpeg_exits(audio, cover) :
              /\ out' = [out EXCEPT ![j.folder] = ffmpeg_write(@, name, audio, cover, exit)]
              /\ job' = [job EXCEPT ![t] =
                     after_resolver(
                         [j EXCEPT !.calls = Append(@,
                             Call("resolve", j.i, "returned", exit, song, audio, cover))],
                         song)]
    /\ UNCHANGED <<thumbnail_folder, tmp, hist, reconcileVars, cropVars, resolverVars>>

\* split_track(audio, track, thumbnail, output_folder); songs.append(song)
Extract(t) ==
    /\ job[t].pc = "extract"
    /\ LET j == job[t]
           track == j.new_tracks[j.i]
           audio == tmp[TEMP_DOWNLOAD].audio
           cover == tmp[thumbnail_folder].new_cover
           name == mp3_name(strip(track.title))
           song == Path(j.folder, name)
       IN \E exit \in ffmpeg_exits(audio, cover) :
              /\ out' = [out EXCEPT ![j.folder] = ffmpeg_write(@, name, audio, cover, exit)]
              /\ job' = [job EXCEPT ![t] =
                     [j EXCEPT !.calls = Append(@,
                                   Call("extract", j.i, "returned", exit, song, audio, cover)),
                               !.songs = Append(@, song),
                               !.i = @ + 1,
                               !.pc = loop_pc(j, j.i + 1)]]
    /\ UNCHANGED <<thumbnail_folder, tmp, hist, reconcileVars, cropVars, resolverVars>>

Next ==
    \E t \in Threads :
        \/ ProcessMessage(t)
        \/ DownloadAudio(t)
        \/ DownloadThumbnail(t)
        \/ SplitBegin(t)
        \/ CheckTracksAppend(t)
        \/ CropMaster(t)
        \/ ResolveSearch(t)
        \/ ResolveDownload(t)
        \/ ResolveTag(t)
        \/ Extract(t)

Spec == Init /\ [][Next]_vars

----------------------------------------------------------------------------
(* Specification of the resolver: get_youtube_track called once, on the    *)
(* list of videos the search returned.  A search result is its title and   *)
(* the ratio() of SequenceMatcher against the track's title, times 100.    *)

\* `for i in range(5)`
SEARCH_LIMIT == 5

SearchResults == [title : { <<"a">>, <<"c">> }, similarity : {59, 60, 61}]

ResultLists == SeqsUpTo(SearchResults, MaxResults)

\* results[i] fails for an index the list does not have.
raises_index_error(videos) == Len(videos) < SEARCH_LIMIT

\* arr after the loop: the pairs (results[i], similarity) for i in range(5)
similarity_pairs(videos) ==
    [i \in 1..SEARCH_LIMIT |-> [result |-> i, similarity |-> videos[i].similarity]]

\* sorted(arr, key=lambda x: x[1]) is ascending and stable: a pair goes
\* behind every pair whose similarity is not greater.
RECURSIVE insert_by_similarity(_, _)
insert_by_similarity(arr, x) ==
    IF arr = <<>> THEN <<x>>
    ELSE IF arr[Len(arr)].similarity <= x.similarity THEN Append(arr, x)
    ELSE Append(insert_by_similarity(SubSeq(arr, 1, Len(arr) - 1), x), arr[Len(arr)])

RECURSIVE sorted_by_similarity(_)
sorted_by_similarity(arr) ==
    IF arr = <<>> THEN <<>>
    ELSE insert_by_similarity(sorted_by_similarity(SubSeq(arr, 1, Len(arr) - 1)),
                              arr[Len(arr)])

\* result = arr[-1][0]; similarity = arr[-1][1]
best_pair(videos) ==
    LET arr == sorted_by_similarity(similarity_pairs(videos)) IN arr[Len(arr)]

InitResolver ==
    /\ results \in ResultLists
    /\ resolved = Pending
    /\ IdleReconcile
    /\ IdleCrop
    /\ IdleLedger
    /\ IdleService

\* get_youtube_track(track, temp_folder, output_folder)
GetYoutubeTrack ==
    /\ resolved.pc = "call"
    /\ IF raises_index_error(results)
       THEN /\ resolved' = [pc |-> "raise", error |-> "IndexError"]
            /\ UNCHANGED <<tmp, out>>
       ELSE LET best == best_pair(results)
                result == results[best.result]
            IN IF resolver_declines(best.similarity)
               THEN /\ resolved' = [pc |-> "return", selected |-> best.result,
                                    similarity |-> best.similarity, song |-> NoSong]
                    /\ UNCHANGED <<tmp, out>>
               ELSE LET size == thumbnail_size(CANDIDATE)
                        p == crop_params(size[1], size[2])
                        fetched == [tmp EXCEPT ![thumbnail_folder].audio = CANDIDATE,
                                               ![thumbnail_folder].cover = CANDIDATE]
                    IN \E crop_exit \in ExitStatus :
                           LET folder == IF crop_exit = 0
                                         THEN [fetched EXCEPT ![thumbnail_folder].new_cover = CANDIDATE]
                                         ELSE fetched
                               audio == folder[thumbnail_folder].audio
                               cover == folder[thumbnail_folder].new_cover
                               name == mp3_name(strip(result.title))
                           IN /\ tmp' = folder
                              /\ IF crop_outcome(p.branch, crop_exit) = "raised"
                                 THEN /\ resolved' = [pc |-> "raise", selected |-> best.result,
                                                      similarity |-> best.similarity,
                                                      error |-> "CalledProcessError"]
                                      /\ UNCHANGED out
                                 ELSE \E exit \in ffmpeg_exits(audio, cover) :
                                          /\ out' = [out EXCEPT ![OUTPUT] =
                                                         ffmpeg_write(@, name, audio, cover, exit)]
                                          /\ resolved' = [pc |-> "return", selected |-> best.result,
                                                          similarity |-> best.similarity,
                                                          song |-> Path(OUTPUT, name)]
    /\ UNCHANGED <<thumbnail_folder, job, hist, reconcileVars, cropVars, results>>

NextResolver == GetYoutubeTrack

SpecResolver == InitResolver /\ [][NextResolver]_vars

----------------------------------------------------------------------------
(* Claims about split and the service (checked under Spec).                *)

\* C2: a split run that starts after a run of the identical job (same
\* video, same output folder) has completed gets an empty list from the
\* ledger filter, calls neither the resolver nor the extractor and returns
\* the empty list.
C2_RerunProducesNothing ==
    \A t \in Threads :
        job[t].rerun_of # {} =>
            /\ job[t].new_tracks = <<>>
            /\ job[t].calls = <<>>
            /\ job[t].songs = <<>>

Returned(calls) == { p \in DOMAIN calls : calls[p].result = "returned" }

\* C5: the tracks left by the ledger filter are taken one at a time in list
\* order; for each the resolver is tried first and the extractor is called
\* if and only if the resolver declined; one path per track is appended, so
\* the returned list has the length and the order of the filtered list.
C5_ResolverThenExtractor ==
    \A t \in Threads :
        LET j == job[t]
            calls == j.calls IN
        /\ \A p, q \in DOMAIN calls :
               /\ p < q => calls[p].track <= calls[q].track
               /\ (p # q /\ calls[p].op = calls[q].op) => calls[p].track # calls[q].track
        /\ \A p \in DOMAIN calls :
               /\ calls[p].track \in DOMAIN j.new_tracks
               /\ \A k \in 1..(calls[p].track - 1) : \E q \in 1..(p - 1) : calls[q].track = k
               /\ calls[p].op = "extract" =>
                      /\ p > 1
                      /\ calls[p - 1].op = "resolve"
                      /\ calls[p - 1].result = "declined"
                      /\ calls[p - 1].track = calls[p].track
               /\ (calls[p].op = "resolve" /\ calls[p].result = "declined") =>
                      \/ /\ p < Len(calls)
                         /\ calls[p + 1].op = "extract"
                         /\ calls[p + 1].track = calls[p].track
                      \/ /\ p = Len(calls)
                         /\ j.pc = "extract"
                         /\ j.i = calls[p].track
        /\ Len(j.songs) = Cardinality(Returned(calls))
        /\ \A k \in DOMAIN j.songs :
               \E p \in Returned(calls) : calls[p].track = k /\ calls[p].path = j.songs[k]
        /\ j.pc = "done" => Len(j.songs) = Len(j.new_tracks)

\* A finished run of two tracks, the first taken from the resolver and the
\* second cut by the extractor after the resolver declined.
C5_Witness ==
    \E t \in Threads :
        /\ job[t].pc = "done"
        /\ Len(job[t].new_tracks) = 2
        /\ Len(job[t].calls) = 3
        /\ job[t].calls[1].op = "resolve" /\ job[t].calls[1].result = "returned"
        /\ job[t].calls[2].op = "resolve" /\ job[t].calls[2].result = "declined"
        /\ job[t].calls[3].op = "extract"
        /\ Len(job[t].songs) = 2

\* C6: an ffmpeg run of split_track or of the resolver's tagging step that
\* exits non-zero makes the call raise, and no returned path names a file
\* that does not exist.
C6_ExtractionFailureRaises ==
    \A t \in Threads :
        /\ \A p \in DOMAIN job[t].calls :
               job[t].calls[p].exit # 0 => job[t].calls[p].result = "raised"
        /\ \A k \in DOMAIN job[t].songs :
               \E f \in out[job[t].songs[k].folder].mp3 : f.name = job[t].songs[k].name

\* C7: of two jobs with different output folders (and different videos),
\* no file written for one is cut from the master audio of the other or
\* embeds the cover art of the other.
C7_DistinctFoldersDoNotInterfere ==
    \A t, u \in Threads :
        (/\ t # u
         /\ job[t].folder # "" /\ job[u].folder # ""
         /\ job[t].folder # job[u].folder
         /\ job[t].video_url # job[u].video_url)
            => \A p \in DOMAIN job[t].calls :
                   job[t].calls[p].exit = 0 =>
                       /\ job[t].calls[p].audio # job[u].video_url
                       /\ job[t].calls[p].cover # job[u].video_url

\* The titles a folder's ledger holds: its lines as they were written and
\* as check_tracks loads them.
LedgerTitlesOf(d) == Range(d.songs_txt.lines) \cup read_processed_songs(d)

\* C12: when a split run has returned, the basename (file name without
\* .mp3) of every returned path is a title the ledger of the output folder
\* holds.
C12_LedgerFilenameAgreement ==
    \A t \in Threads :
        job[t].pc = "done" =>
            \A k \in DOMAIN job[t].songs :
                SubSeq(job[t].songs[k].name, 1, Len(job[t].songs[k].name) - 1)
                    \in LedgerTitlesOf(out[job[t].folder])

AfterCheckTracks ==
    {"crop", "resolve", "resolve_download", "resolve_tag", "extract", "done", "failed"}

\* C13: from the crop of the master thumbnail on, and so at every call of
\* the resolver or the extractor, the titles of all tracks the ledger filter
\* returned to the run are lines of the ledger.
C13_ClaimBeforeExtract ==
    \A t \in Threads :
        (job[t].pc \in AfterCheckTracks \/ job[t].calls # <<>>) =>
            \A k \in DOMAIN job[t].new_tracks :
                job[t].new_tracks[k].title \in Range(out[job[t].folder].songs_txt.lines)

\* A run of two tracks that is about to crop the master thumbnail: both
\* titles are in the ledger and no file has been written.
C13_Witness ==
    \E t \in Threads :
        /\ job[t].pc = "crop"
        /\ Len(job[t].new_tracks) = 2
        /\ job[t].calls = <<>>
        /\ out[job[t].folder].mp3 = {}
        /\ \A k \in 1..2 :
               job[t].new_tracks[k].title \in Range(out[job[t].folder].songs_txt.lines)

\* The first track of a failed run that was not finished: the crop of the
\* master thumbnail fails before track 1 (i = 0), track k fails with i = k.
FirstPhantom(j) == IF j.i = 0 THEN 1 ELSE j.i

PhantomTitles(j) ==
    { j.new_tracks[k].title : k \in FirstPhantom(j)..Len(j.new_tracks) }

\* C14: a run that failed at the crop of the master thumbnail or at track k
\* has processed no later track and returned no list, its ledger keeps the
\* titles of track k and of the later tracks, and a run of the same job
\* that starts afterwards gets none of those titles from the ledger filter
\* and writes none of their files.
C14_PhantomEntries ==
    \A u \in Threads :
        (job[u].pc = "failed" /\ job[u].new_tracks # <<>>) =>
            /\ \A p \in DOMAIN job[u].calls : job[u].calls[p].track <= FirstPhantom(job[u])
            /\ Len(job[u].songs) < FirstPhantom(job[u])
            /\ PhantomTitles(job[u]) \subseteq Range(out[job[u].folder].songs_txt.lines)
            /\ \A t \in Threads :
                   u \in job[t].retry_of =>
                       \A k \in DOMAIN job[t].new_tracks :
                           job[t].new_tracks[k].title \notin PhantomTitles(job[u])

\* C15: no title is returned by check_tracks to two jobs with the same
\* output folder.  (Titles with whitespace at an end are left aside: they
\* are returned again by every run, see C1.)
C15_AtMostOnceAcceptance ==
    \A t, u \in Threads :
        (t # u /\ job[t].folder # "" /\ job[t].folder = job[u].folder) =>
            \A k \in DOMAIN job[t].new_tracks, m \in DOMAIN job[u].new_tracks :
                LET title == job[t].new_tracks[k].title IN
                strip(title) = title => title # job[u].new_tracks[m].title

\* C16: in a run that has the service to itself (no other message was
\* turned into a job), every file split_track wrote is cut from the audio of
\* the run's video and carries the crop of the run's thumbnail.
C16_MasterArtifactsStable ==
    \A t \in Threads :
        (\A u \in Threads \ {t} : job[u].pc \in {"listen", "ignored"}) =>
            \A p \in DOMAIN job[t].calls :
                (job[t].calls[p].op = "extract" /\ job[t].calls[p].exit = 0) =>
                    /\ job[t].calls[p].audio = job[t].video_url
                    /\ job[t].calls[p].cover = job[t].video_url

----------------------------------------------------------------------------
(* Claims about the ledger (checked under SpecLedger).                     *)

\* C1: a call of check_tracks that repeats the call before it (the same
\* tracks, songs.txt as that call left it) returns the empty list.
C1_LedgerIdempotence ==
    \A c \in DOMAIN hist :
        hist[c].repeated => hist[c].new_tracks = <<>>

KeptPositions(call) ==
    { k \in DOMAIN call.tracks : call.tracks[k].title \notin call.processed_songs }

\* The i-th smallest element of the set K of positions.
NthOf(K, i) == CHOOSE k \in K : Cardinality({ m \in K : m <= k }) = i

\* C3: check_tracks returns exactly the tracks whose title is not in the
\* set of titles it loaded from songs.txt, in the order of the input.
C3_FilterExactInOrder ==
    \A c \in DOMAIN hist :
        LET call == hist[c]
            K == KeptPositions(call) IN
        /\ Len(call.new_tracks) = Cardinality(K)
        /\ \A i \in DOMAIN call.new_tracks :
               call.new_tracks[i] = call.tracks[NthOf(K, i)]
        /\ \A i \in DOMAIN call.new_tracks :
               call.new_tracks[i].title \notin call.processed_songs

\* A call on a folder with songs.txt that dropped its first track and
\* returned its second.
C3_Witness ==
    /\ hist # <<>>
    /\ hist[1].before.songs_txt.exists
    /\ Len(hist[1].tracks) = 2
    /\ hist[1].tracks[1].title \in hist[1].processed_songs
    /\ hist[1].new_tracks = <<hist[1].tracks[2]>>

\* The name of a file without its extension.
Basename(name) == SubSeq(name, 1, Len(name) - 1)

\* C4: without songs.txt and with .mp3 files in the folder, songs.txt is
\* created with the basename of every file and every track whose title is
\* one of those basenames is left out of the result; with songs.txt the
\* folder is not listed and the ledger is loaded as it is.
C4_LedgerSeeding ==
    \A c \in DOMAIN hist :
        LET call == hist[c]
            names == { Basename(f.name) : f \in call.before.mp3 } IN
        /\ (~call.before.songs_txt.exists /\ names # {}) =>
               /\ call.after.songs_txt.exists
               /\ names \subseteq Range(call.after.songs_txt.lines)
               /\ \A k \in DOMAIN call.tracks :
                      call.tracks[k].title \in names =>
                          call.tracks[k] \notin Range(call.new_tracks)
        /\ call.before.songs_txt.exists =>
               /\ ~call.listed
               /\ call.seeded = call.before

----------------------------------------------------------------------------
(* Claims about the reconciler (checked under SpecReconcile).              *)

TitlesOf(tracks) == { tracks[k].title : k \in DOMAIN tracks }

FirstIndex(tracks, t) ==
    CHOOSE k \in DOMAIN tracks :
        tracks[k].title = t /\ \A m \in 1..(k - 1) : tracks[m].title # t

LastIndex(tracks, t) ==
    CHOOSE k \in DOMAIN tracks :
        tracks[k].title = t /\ \A m \in (k + 1)..Len(tracks) : tracks[m].title # t

IsMinStart(s, tracks, t) ==
    /\ \E k \in DOMAIN tracks : tracks[k].title = t /\ tracks[k].start = s
    /\ \A k \in DOMAIN tracks : tracks[k].title = t => s <= tracks[k].start

NoDuplicateTitles(tracks) ==
    \A i, j \in DOMAIN tracks : tracks[i].title = tracks[j].title => i = j

\* C8: the merge step yields one track per distinct title, in first-seen
\* order of the titles; a title's start is the minimum start of the chapters
\* with that title and its duration is that of the last such chapter; a list
\* without duplicate titles comes back as it went in.
C8_MergeOfDuplicates ==
    reconciled.pc = "return" =>
        LET m == reconciled.merged IN
        /\ Len(m) = Cardinality(TitlesOf(chapters))
        /\ \A i \in DOMAIN m : m[i].title \in TitlesOf(chapters)
        /\ \A i, j \in DOMAIN m :
               i < j => FirstIndex(chapters, m[i].title) < FirstIndex(chapters, m[j].title)
        /\ \A i \in DOMAIN m :
               /\ IsMinStart(m[i].start, chapters, m[i].title)
               /\ m[i].duration = chapters[LastIndex(chapters, m[i].title)].duration
        /\ NoDuplicateTitles(chapters) => m = chapters

\* A merged list of two titles whose first title came back later with an
\* earlier start and another duration.
C8_Witness ==
    /\ reconciled.pc = "return"
    /\ Len(chapters) = 3
    /\ chapters[1].title = chapters[3].title
    /\ chapters[1].title # chapters[2].title
    /\ chapters[3].start < chapters[1].start
    /\ chapters[3].duration # chapters[1].duration
    /\ Len(reconciled.merged) = 2

AllIn(s, S) == \A k \in DOMAIN s : s[k] \in S

\* p is one or more digits, then at most one period, then whitespace.
IsOrdinalPrefix(p) ==
    \E d \in 1..Len(p) :
        /\ AllIn(SubSeq(p, 1, d), DIGITS)
        /\ \/ AllIn(SubSeq(p, d + 1, Len(p)), WHITESPACE)
           \/ /\ d < Len(p)
              /\ p[d + 1] = PERIOD
              /\ AllIn(SubSeq(p, d + 2, Len(p)), WHITESPACE)

\* r is t without its ordinal prefix p, and p could not have been longer.
IsNormalized(t, r) ==
    \E n \in 0..Len(t) :
        LET p == SubSeq(t, 1, n) IN
        /\ r = SubSeq(t, n + 1, Len(t))
        /\ (n = 0) <=> (t = <<>> \/ t[1] \notin DIGITS)
        /\ n > 0 => /\ IsOrdinalPrefix(p)
                    /\ r # <<>> => /\ r[1] \notin WHITESPACE
                                   /\ r[1] \in DIGITS \cup {PERIOD} => ~AllIn(p, DIGITS)

\* C9: every returned title is the merged title without its leading
\* "digits, optional period, whitespace" prefix, a title that does not start
\* with a digit is unchanged, starts and durations are untouched, and the
\* grouping was done on the titles as given: one track per distinct given title.
C9_NormalizeAfterMerge ==
    reconciled.pc = "return" =>
        LET m == reconciled.merged
            r == reconciled.tracks IN
        /\ Len(r) = Len(m)
        /\ Len(r) = Cardinality(TitlesOf(chapters))
        /\ \A k \in DOMAIN r :
               /\ IsNormalized(m[k].title, r[k].title)
               /\ (m[k].title = <<>> \/ m[k].title[1] \notin DIGITS) => r[k].title = m[k].title
               /\ r[k].start = m[k].start
               /\ r[k].duration = m[k].duration

\* Two chapters whose titles differ only in the ordinal prefix stay two tracks.
C9_Witness ==
    /\ reconciled.pc = "return"
    /\ Len(chapters) = 2
    /\ chapters[1].title # chapters[2].title
    /\ chapters[1].title[1] \in DIGITS
    /\ Len(reconciled.tracks) = 2
    /\ reconciled.tracks[1].title = reconciled.tracks[2].title

\* A digit run, a period and whitespace are all removed from one title.
C9_WitnessPrefix ==
    /\ reconciled.pc = "return"
    /\ Len(chapters) = 1
    /\ chapters[1].title = <<"1", ".", " ">>
    /\ reconciled.tracks[1].title = <<>>

\* C17: merge_duplicate_tracks does not modify its argument: after the
\* call every Track of the input list has the title, start and duration it
\* had before, and a second call on the same objects returns what the first
\* call returned.
C17_ReconciliationIsPure ==
    reconciled.pc = "return" =>
        /\ reconciled.calls = 1 => reconciled.argument = chapters
        /\ reconciled.calls = 2 => reconciled.again = reconciled.tracks

\* C19: the list merge_duplicate_tracks returns has no two tracks with the
\* same title.
C19_DistinctTitles ==
    reconciled.pc = "return" => NoDuplicateTitles(reconciled.tracks)

----------------------------------------------------------------------------
(* Claims about the cropper (checked under SpecCrop).                      *)

\* q = int(a / b) for b > 0: the quotient truncated toward zero.
IsTrunc(q, a, b) ==
    IF a >= 0 THEN b * q <= a /\ a < b * (q + 1)
    ELSE b * q >= a /\ a > b * (q - 1)

WideFormula(p, w, h) ==
    /\ p.w = w
    /\ IsTrunc(p.h, 9 * w, 16)
    /\ p.x = 0
    /\ IsTrunc(p.y, 16 * h - 9 * w, 32)

TallFormula(p, w, h) ==
    /\ p.h = h
    /\ IsTrunc(p.w, 16 * h, 9)
    /\ IsTrunc(p.x, 9 * w - 16 * h, 18)
    /\ p.y = 0

----------------------------------------------------------------------------
(* Claims about the resolver (checked under SpecResolver).                 *)

Declined == resolved.pc = "return" /\ resolved.song = NoSong

NothingFetched ==
    /\ tmp = [f \in TempFolders |-> EmptyTemp]
    /\ out = [f \in OutputFolders |-> EmptyFolder]

\* C11: of the first 5 search results get_youtube_track selects one whose
\* similarity is the maximum; it declines (returns nothing, downloads
\* nothing, writes no file) if and only if that maximum is below 0.6, so
\* 0.6 itself is accepted and 0.59 is declined.
C11_ResolverThreshold ==
    (resolved.pc # "call" /\ Len(results) >= 5) =>
        /\ resolved.selected \in 1..5
        /\ \A i \in 1..5 : results[i].similarity <= results[resolved.selected].similarity
        /\ resolved.similarity = results[resolved.selected].similarity
        /\ Declined <=> (\A i \in 1..5 : results[i].similarity < 60)
        /\ Declined => NothingFetched
        /\ ~Declined => /\ tmp[thumbnail_folder].audio = CANDIDATE
                        /\ tmp[thumbnail_folder].cover = CANDIDATE

\* A best score of exactly 0.6 among lower ones is accepted and its file is
\* written, while a sixth result with a higher score is not looked at.
C11_Witness ==
    /\ resolved.pc = "return"
    /\ Len(results) = 6
    /\ results[6].similarity = 61
    /\ resolved.selected = 2
    /\ results[2].similarity = 60
    /\ \A i \in {1, 3, 4, 5} : results[i].similarity = 59
    /\ resolved.song # NoSong
    /\ \E f \in out[OUTPUT].mp3 : f.name = resolved.song.name

\* Five scores of 0.59 are declined and nothing is fetched.
C11_WitnessDeclined ==
    /\ Declined
    /\ \A i \in 1..5 : results[i].similarity = 59
    /\ NothingFetched

\* C20: whatever the number of search results, get_youtube_track returns a
\* path or declines; it does not fail because of the number of results.
C20_ResolverTotality ==
    resolved.pc = "raise" => resolved.error # "IndexError"

\* C18: for every image of at least 1x1 the crop rectangle lies inside the
\* image (offsets >= 0, crop width <= w, crop height <= h) and is 16:9 up to
\* the truncation to integers.
C18_CropInsideImage ==
    crop.pc = "return" =>
        LET w == img[1]
            h == img[2]
            p == crop.params IN
        /\ p.x >= 0 /\ p.y >= 0
        /\ p.w <= w /\ p.h <= h
        /\ p.x + p.w <= w /\ p.y + p.h <= h
        /\ \/ IsTrunc(p.h, 9 * p.w, 16)
           \/ IsTrunc(p.w, 16 * p.h, 9)

====
